---------------------------- MODULE Spec2Model ----------------------------
(***************************************************************************)
(* Product API demo (src/main.py) and its request logger                   *)
(* (src/logging_middleware.py).                                            *)
(*                                                                         *)
(* Conventions of the model                                                *)
(*  - A Python value that may be None is modelled as a sequence of length  *)
(*    at most one: None is <<>>, any other value v is <<v>>.               *)
(*  - Prices are floats in the source; they are modelled in integer cents  *)
(*    (29.99 is 2999), which keeps every comparison the code makes.        *)
(*  - The Python dict products_db is an insertion-ordered mapping: it is   *)
(*    modelled by the function products_db and the key order db_keys.      *)
(*  - A timestamp is modelled by a logical clock; the seed records carry   *)
(*    time 0.                                                              *)
(***************************************************************************)
EXTENDS Integers, Sequences, FiniteSets, TLC

VARIABLES
    products_db,  \* main.py:127  id -> product record
    db_keys,      \* main.py:127  insertion order of the keys of products_db
    next_id,      \* main.py:128  the id counter
    clock,        \* the current time, one tick per handled request
    last,         \* the last request handled and its response
    issued,       \* history: every id ever assigned, in order of assignment
    pc,           \* concurrent requests: position of each task
    task,         \* concurrent requests: the request each task carries
    resps,        \* concurrent requests: the response each task received
    handled,      \* history: requests in the order their handlers ran
    headers,      \* logging: the request headers of the logged request
    log_entry     \* logging: the emitted log record (None before emission)

storeVars == <<products_db, db_keys, next_id>>
seqVars   == <<clock, last, issued>>
concVars  == <<pc, task, resps, handled>>
logVars   == <<headers, log_entry>>
vars      == <<products_db, db_keys, next_id, clock, last, issued,
               pc, task, resps, handled, headers, log_entry>>

-----------------------------------------------------------------------------
(* Optional values *)

None == <<>>
Some(v) == <<v>>

Max(S) == CHOOSE m \in S : \A x \in S : x <= m
Min2(a, b) == IF a <= b THEN a ELSE b
Range(s) == {s[i] : i \in DOMAIN s}

-----------------------------------------------------------------------------
(* Bounds of the model *)

\* requests handled in one run of the store specification
MaxSteps == 4
\* requests handled in one run of the identifier specification
MaxIdSteps == 6
\* requests handled in one run of the listing specification
MaxListSteps == 3
\* largest page number and page size requested
MaxPage == 3
MaxPageSize == 3
\* most headers in one logged request
MaxHeaders == 2
\* concurrently dispatched requests
MaxTasks == 2

-----------------------------------------------------------------------------
(* Field constraints of the pydantic models *)

NameMinLen == 1
NameMaxLen == 100
DescMaxLen == 500

\* Field(..., min_length=1, max_length=100)
NameOk(n) == Len(n) >= NameMinLen /\ Len(n) <= NameMaxLen
\* Field(None, max_length=500)
DescOk(d) == Len(d) <= DescMaxLen
\* Field(..., gt=0)
PriceOk(p) == p > 0

\* ProductCreate: name and price are required and not nullable, description
\* is nullable, in_stock may be omitted (None here) and then defaults to True.
ValidProductCreate(b) ==
    /\ b.name # None /\ NameOk(b.name[1])
    /\ (b.description = None \/ DescOk(b.description[1]))
    /\ b.price # None /\ PriceOk(b.price[1])

\* ProductCreate.model_dump(): the four fields, in_stock defaulted
model_dump(b) ==
    [name |-> b.name, description |-> b.description, price |-> b.price,
     in_stock |-> IF b.in_stock = None THEN Some(TRUE) ELSE b.in_stock]

\* ProductUpdate: every field is Optional, so an explicit null passes; the
\* constraints apply to non-null values only.  u is the mapping of the
\* fields explicitly present in the request body (exclude_unset=True).
ValidProductUpdate(u) ==
    /\ DOMAIN u \subseteq {"name", "description", "price", "in_stock"}
    /\ "name" \in DOMAIN u => (u["name"] = None \/ NameOk(u["name"][1]))
    /\ "description" \in DOMAIN u =>
           (u["description"] = None \/ DescOk(u["description"][1]))
    /\ "price" \in DOMAIN u => (u["price"] = None \/ PriceOk(u["price"][1]))

\* Product (the response model): name, price, in_stock, id and created_at are
\* required and not nullable; description and image_url are nullable.
ValidProduct(p) ==
    /\ p.name # None /\ NameOk(p.name[1])
    /\ (p.description = None \/ DescOk(p.description[1]))
    /\ p.price # None /\ PriceOk(p.price[1])
    /\ p.in_stock # None

-----------------------------------------------------------------------------
(* Seed data *)

SeedTime == 0

INITIAL_PRODUCTS ==
    << [id |-> 1, name |-> Some("Wireless Mouse"),
        description |-> Some("Ergonomic wireless mouse with USB receiver"),
        price |-> Some(2999), in_stock |-> Some(TRUE),
        created_at |-> SeedTime, image_url |-> None],
       [id |-> 2, name |-> Some("Mechanical Keyboard"),
        description |-> Some("RGB mechanical keyboard with blue switches"),
        price |-> Some(8999), in_stock |-> Some(TRUE),
        created_at |-> SeedTime, image_url |-> None],
       [id |-> 3, name |-> Some("USB-C Hub"),
        description |-> Some("7-in-1 USB-C hub with HDMI and SD card reader"),
        price |-> Some(4550), in_stock |-> Some(FALSE),
        created_at |-> SeedTime, image_url |-> None],
       [id |-> 4, name |-> Some("Laptop Stand"),
        description |-> Some("Adjustable aluminum laptop stand"),
        price |-> Some(3999), in_stock |-> Some(TRUE),
        created_at |-> SeedTime, image_url |-> None] >>

\* products_db = {product["id"]: product for product in INITIAL_PRODUCTS}
SeedDb ==
    [i \in {INITIAL_PRODUCTS[k].id : k \in DOMAIN INITIAL_PRODUCTS} |->
        LET k == CHOOSE k \in DOMAIN INITIAL_PRODUCTS : INITIAL_PRODUCTS[k].id = i
        IN  INITIAL_PRODUCTS[k]]
SeedKeys == [k \in DOMAIN INITIAL_PRODUCTS |-> INITIAL_PRODUCTS[k].id]
\* next_id = max(products_db.keys()) + 1 if products_db else 1
SeedNextId == IF DOMAIN SeedDb # {} THEN Max(DOMAIN SeedDb) + 1 ELSE 1

SeedStore == [db |-> SeedDb, keys |-> SeedKeys, next_id |-> SeedNextId]

-----------------------------------------------------------------------------
(* Responses *)

Response(status, body) == [status |-> status, body |-> body]

HTTPException(status_code, detail) ==
    [status_code |-> status_code, detail |-> detail]

\* the framework's own rendering of an HTTPException: {detail}
http_exception_handler_default(exc) ==
    Response(exc.status_code, [detail |-> exc.detail])

\* the custom handler turns every HTTPException into {error, status_code}
http_exception_handler(exc) ==
    Response(exc.status_code,
             [error |-> exc.detail, status_code |-> exc.status_code])

\* detail=f"Product with id {product_id} not found"
NotFoundDetail(product_id) ==
    [text |-> "Product with id {product_id} not found", product_id |-> product_id]
\* detail=f"Product with ID {product_id} not found" (the upload handler)
NotFoundDetailUpload(product_id) ==
    [text |-> "Product with ID {product_id} not found", product_id |-> product_id]

\* a request body or query the framework rejects before the handler runs
RequestValidationError == Response(422, [detail |-> "validation error"])

\* response_model=Product: the framework validates what the handler returns
\* against Product; a record that fails it never reaches the client, the
\* request ends 500.
ProductResponse(status, p) ==
    IF ValidProduct(p) THEN Response(status, p)
    ELSE Response(500, "Internal Server Error")

Result(S, resp) == [S |-> S, resp |-> resp]

-----------------------------------------------------------------------------
(* The handlers, as functions of the store S = [db, keys, next_id].  Each    *)
(* returns the store it leaves and the response the client receives.  A      *)
(* handler body contains no await, so it runs as one step.                   *)

Store == [db |-> products_db, keys |-> db_keys, next_id |-> next_id]

\* products_db[key] = value: a new key goes last, an existing key keeps its place
DictSet(S, key, value) ==
    [S EXCEPT !.db = (key :> value) @@ S.db,
              !.keys = IF key \in DOMAIN S.db THEN S.keys ELSE Append(S.keys, key)]

\* del products_db[key]
DictDel(S, key) ==
    [S EXCEPT !.db = [k \in DOMAIN S.db \ {key} |-> S.db[k]],
              !.keys = SelectSeq(S.keys, LAMBDA k : k # key)]

\* list(products_db.values())
DictValues(S) == [i \in DOMAIN S.keys |-> S.db[S.keys[i]]]

\* GET /api/v1/products/{product_id}
get_product(S, product_id) ==
    IF product_id \notin DOMAIN S.db
    THEN Result(S, http_exception_handler(
                       HTTPException(404, NotFoundDetail(product_id))))
    ELSE Result(S, ProductResponse(200, S.db[product_id]))

\* a create that allocates max(keys) + 1 instead of the counter
create_product_max(S, product, now) ==
    IF ~ValidProductCreate(product) THEN Result(S, RequestValidationError)
    ELSE LET nid == IF DOMAIN S.db # {} THEN Max(DOMAIN S.db) + 1 ELSE 1
             new_product == [id |-> nid] @@ model_dump(product)
                            @@ [created_at |-> now, image_url |-> None]
         IN  Result([DictSet(S, nid, new_product) EXCEPT !.next_id = nid + 1],
                    ProductResponse(201, new_product))

\* a create that forgets next_id += 1
create_product_noinc(S, product, now) ==
    IF ~ValidProductCreate(product) THEN Result(S, RequestValidationError)
    ELSE LET new_product == [id |-> S.next_id] @@ model_dump(product)
                            @@ [created_at |-> now, image_url |-> None]
         IN  Result(DictSet(S, S.next_id, new_product),
                    ProductResponse(201, new_product))

\* POST /api/v1/products
create_product(S, product, now) ==
    IF ~ValidProductCreate(product) THEN Result(S, RequestValidationError)
    ELSE LET new_product == [id |-> S.next_id] @@ model_dump(product)
                            @@ [created_at |-> now, image_url |-> None]
         IN  Result([DictSet(S, S.next_id, new_product)
                        EXCEPT !.next_id = S.next_id + 1],
                    ProductResponse(201, new_product))

\* an update that writes without checking that the product is still stored
update_product_upsert(S, product_id, product_update) ==
    IF ~ValidProductUpdate(product_update) THEN Result(S, RequestValidationError)
    ELSE LET old == IF product_id \in DOMAIN S.db THEN S.db[product_id]
                    ELSE [id |-> product_id, name |-> None, description |-> None,
                          price |-> None, in_stock |-> None,
                          created_at |-> SeedTime, image_url |-> None]
             stored_product ==
                 [f \in DOMAIN old |->
                     IF f \in DOMAIN product_update THEN product_update[f]
                     ELSE old[f]]
         IN  Result(DictSet(S, product_id, stored_product),
                    ProductResponse(200, stored_product))

\* PUT /api/v1/products/{product_id}; product_update is the mapping of the
\* fields present in the body (model_dump(exclude_unset=True))
update_product(S, product_id, product_update) ==
    IF ~ValidProductUpdate(product_update) THEN Result(S, RequestValidationError)
    ELSE IF product_id \notin DOMAIN S.db
    THEN Result(S, http_exception_handler(
                       HTTPException(404, NotFoundDetail(product_id))))
    ELSE LET stored_product ==
                 [f \in DOMAIN S.db[product_id] |->
                     IF f \in DOMAIN product_update THEN product_update[f]
                     ELSE S.db[product_id][f]]
         IN  Result(DictSet(S, product_id, stored_product),
                    ProductResponse(200, stored_product))

\* DELETE /api/v1/products/{product_id}
delete_product(S, product_id) ==
    IF product_id \notin DOMAIN S.db
    THEN Result(S, http_exception_handler(
                       HTTPException(404, NotFoundDetail(product_id))))
    ELSE Result(DictDel(S, product_id), Response(204, None))

UPLOADS_DIR == "uploads"

get_image_extension(content_type) ==
    CASE content_type = "image/jpeg" -> Some("jpg")
      [] content_type = "image/png"  -> Some("png")
      [] content_type = "image/webp" -> Some("webp")
      [] OTHER -> None

\* POST /api/v1/products/{product_id}/image.  decodable: whether Image.open,
\* thumbnail and save succeed on the uploaded bytes.
upload_product_image(S, product_id, content_type, decodable) ==
    IF product_id \notin DOMAIN S.db
    THEN Result(S, http_exception_handler(
                       HTTPException(404, NotFoundDetailUpload(product_id))))
    ELSE LET file_extension == get_image_extension(content_type) IN
    IF file_extension = None
    THEN Result(S, http_exception_handler(HTTPException(400,
             "Invalid image format. Only PNG, JPG, and WEBP are supported.")))
    ELSE IF ~decodable
    THEN Result(S, http_exception_handler(HTTPException(500,
             "Error processing image file.")))
    ELSE LET image_url == [dir |-> UPLOADS_DIR, product_id |-> product_id,
                           ext |-> file_extension[1]]
             stored == [S.db[product_id] EXCEPT !.image_url = Some(image_url)]
         IN  Result(DictSet(S, product_id, stored), ProductResponse(200, stored))

-----------------------------------------------------------------------------
(* Requests handled one after another *)

NoRequest == [op |-> "none", id |-> 0, req |-> None, status |-> 0, body |-> None]

StoreInit ==
    /\ products_db = SeedStore.db
    /\ db_keys = SeedStore.keys
    /\ next_id = SeedStore.next_id

ConcIdle ==
    /\ pc = <<>> /\ task = <<>> /\ resps = <<>> /\ handled = <<>>

LogIdle ==
    /\ headers = <<>> /\ log_entry = None

Init ==
    /\ StoreInit
    /\ clock = 1
    /\ last = NoRequest
    /\ issued = SeedStore.keys
    /\ ConcIdle
    /\ LogIdle

\* the store and the record of the request after a handler returned r
Commit(op, id, req, r) ==
    /\ products_db' = r.S.db
    /\ db_keys' = r.S.keys
    /\ next_id' = r.S.next_id
    /\ clock' = clock + 1
    /\ last' = [op |-> op, id |-> id, req |-> req,
                status |-> r.resp.status, body |-> r.resp.body]
    /\ UNCHANGED <<concVars, logVars>>

Create(product) ==
    LET r == create_product(Store, product, clock) IN
    /\ Commit("create", IF r.resp.status = 201 THEN r.resp.body.id ELSE 0,
              product, r)
    /\ issued' = IF r.resp.status = 201 THEN Append(issued, r.resp.body.id)
                 ELSE issued

Get(product_id) ==
    /\ Commit("get", product_id, None, get_product(Store, product_id))
    /\ UNCHANGED issued

Update(product_id, product_update) ==
    /\ Commit("update", product_id, product_update,
              update_product(Store, product_id, product_update))
    /\ UNCHANGED issued

Delete(product_id) ==
    /\ Commit("delete", product_id, None, delete_product(Store, product_id))
    /\ UNCHANGED issued

Upload(product_id, content_type, decodable) ==
    /\ Commit("upload", product_id,
              [content_type |-> content_type, decodable |-> decodable],
              upload_product_image(Store, product_id, content_type, decodable))
    /\ UNCHANGED issued

-----------------------------------------------------------------------------
(* Inputs of the store specification *)

SeedMax == Max(DOMAIN SeedDb)

\* an id never issued, the highest seed id, the first id a create assigns
ReqIds == {0, SeedMax, SeedMax + 1}

Body(name, price) ==
    [name |-> name, description |-> None, price |-> price, in_stock |-> None]

\* {name: "Widget", price: 9.99}, and two bodies the validation rejects
CreateBodies == {Body(Some("Widget"), Some(999)), Body(Some("Widget"), Some(0)),
                 Body(Some(""), Some(999))}

UpdateFields == {"name", "price", "in_stock"}
UpdateNames == {Some("Gadget")}
UpdatePrices == {Some(2500), Some(0), None}
UpdateStocks == {Some(FALSE)}

UpdateBody(F, n, p, s) ==
    [f \in F |-> CASE f = "name" -> n [] f = "price" -> p [] f = "in_stock" -> s]

Uploads == {<<"image/jpeg", TRUE>>, <<"image/webp", TRUE>>,
            <<"image/png", FALSE>>, <<"text/plain", TRUE>>}

\* the run is bounded: at most n requests are handled
Within(n) == clock <= n

Next ==
    \/ \E b \in CreateBodies : Within(MaxSteps) /\ Create(b)
    \/ \E i \in ReqIds : Within(MaxSteps) /\ Get(i)
    \/ \E i \in ReqIds, F \in SUBSET UpdateFields, n \in UpdateNames,
          p \in UpdatePrices, s \in UpdateStocks :
            Within(MaxSteps) /\ Update(i, UpdateBody(F, n, p, s))
    \/ \E i \in ReqIds : Within(MaxSteps) /\ Delete(i)
    \/ \E i \in ReqIds, u \in Uploads :
            Within(MaxSteps) /\ Upload(i, u[1], u[2])

Spec == Init /\ [][Next]_vars

-----------------------------------------------------------------------------
(* Identifier allocation: creates and deletes only, over longer runs *)

IdReqIds == 1 .. (SeedMax + 2)

NextIds ==
    \/ Within(MaxIdSteps) /\ Create(Body(Some("Widget"), Some(999)))
    \/ \E i \in IdReqIds : Within(MaxIdSteps) /\ Delete(i)
    \/ \E i \in IdReqIds : Within(MaxIdSteps) /\ Get(i)

SpecIds == Init /\ [][NextIds]_vars

-----------------------------------------------------------------------------
(* Listing *)

PageSizeMin == 1
PageSizeMax == 100
PageMin == 1

\* page: int = Query(1, ge=1), page_size: int = Query(10, ge=1, le=100)
ValidListQuery(q) ==
    /\ q.page >= PageMin
    /\ q.page_size >= PageSizeMin /\ q.page_size <= PageSizeMax

\* s[start:end] for start, end >= 0
PySlice(s, start, end) ==
    SubSeq(s, Min2(start, Len(s)) + 1, Min2(end, Len(s)))

\* [p for p in products if p["in_stock"] == in_stock]
FilterInStock(products, in_stock) ==
    SelectSeq(products, LAMBDA p : p.in_stock = in_stock)
\* [p for p in products if p["price"] >= min_price]
FilterMinPrice(products, min_price) ==
    SelectSeq(products, LAMBDA p : p.price[1] >= min_price[1])
\* [p for p in products if p["price"] <= max_price]
FilterMaxPrice(products, max_price) ==
    SelectSeq(products, LAMBDA p : p.price[1] <= max_price[1])

\* comparing a price that is None with a float raises TypeError
HasNonePrice(products) == \E i \in DOMAIN products : products[i].price = None

\* total_pages = (total_items + page_size - 1) // page_size
TotalPages(total_items, page_size) ==
    (total_items + page_size - 1) \div page_size

\* GET /api/v1/products.  response_model=PaginatedProducts validates every
\* returned item against Product.
list_products(S, q) ==
    IF ~ValidListQuery(q) THEN Result(S, RequestValidationError)
    ELSE
    LET p0 == DictValues(S)
        p1 == IF q.in_stock # None THEN FilterInStock(p0, q.in_stock) ELSE p0
        err2 == q.min_price # None /\ HasNonePrice(p1)
        p2 == IF q.min_price # None /\ ~err2
              THEN FilterMinPrice(p1, q.min_price) ELSE p1
        err3 == ~err2 /\ q.max_price # None /\ HasNonePrice(p2)
        p3 == IF q.max_price # None /\ ~err2 /\ ~err3
              THEN FilterMaxPrice(p2, q.max_price) ELSE p2
        total_items == Len(p3)
        total_pages == TotalPages(total_items, q.page_size)
        start_index == (q.page - 1) * q.page_size
        end_index == start_index + q.page_size
        paginated_products == PySlice(p3, start_index, end_index)
    IN  IF err2 \/ err3 THEN Result(S, Response(500, "Internal Server Error"))
        ELSE IF \E i \in DOMAIN paginated_products :
                    ~ValidProduct(paginated_products[i])
        THEN Result(S, Response(500, "Internal Server Error"))
        ELSE Result(S, Response(200,
                 [total_items |-> total_items, total_pages |-> total_pages,
                  page |-> q.page, page_size |-> q.page_size,
                  items |-> paginated_products]))

List(q) ==
    /\ Commit("list", 0, q, list_products(Store, q))
    /\ UNCHANGED issued

Query(in_stock, min_price, max_price, page, page_size) ==
    [in_stock |-> in_stock, min_price |-> min_price, max_price |-> max_price,
     page |-> page, page_size |-> page_size]

ListStocks == {None, Some(TRUE), Some(FALSE)}
ListMinPrices == {None, Some(3999)}
ListMaxPrices == {None, Some(4550)}
ListPages == 0 .. MaxPage
ListPageSizes == (0 .. MaxPageSize) \cup {PageSizeMax + 1}
ListReqIds == {1, 3, SeedMax}

NextList ==
    \/ \E pr \in {999, 4550} :
          Within(MaxListSteps) /\ Create(Body(Some("Widget"), Some(pr)))
    \/ \E i \in ListReqIds : Within(MaxListSteps) /\ Delete(i)
    \/ \E i \in ListReqIds, p \in {Some(3999), None} :
          Within(MaxListSteps) /\ Update(i, UpdateBody({"price"}, None, p, None))
    \/ \E i \in ListReqIds :
          Within(MaxListSteps)
          /\ Update(i, UpdateBody({"in_stock"}, None, None, Some(FALSE)))
    \/ \E a \in ListStocks, b \in ListMinPrices, c \in ListMaxPrices,
          pg \in ListPages, ps \in ListPageSizes :
            Within(MaxListSteps) /\ List(Query(a, b, c, pg, ps))

SpecList == Init /\ [][NextList]_vars

-----------------------------------------------------------------------------
(* Properties of the store *)

\* a request was handled in this step
Handled(op) == clock' = clock + 1 /\ last'.op = op

\* C1: every successful create returns an id strictly greater than every id
\* assigned before it (seed ids and ids of deleted products included), so
\* the ids in order of assignment are strictly increasing and none repeats.
C1_IdsStrictlyIncrease ==
    \A i, j \in DOMAIN issued : i < j => issued[i] < issued[j]

\* a create succeeded although an id assigned earlier has since been
\* deleted, in a run that also updated or uploaded
C1_Witness ==
    /\ last.op = "create" /\ last.status = 201
    /\ \E i \in DOMAIN issued : issued[i] \notin DOMAIN products_db
    /\ \E k \in DOMAIN products_db : products_db[k].image_url # None

\* C2: every stored product has price > 0 and a non-empty name.
C2_PriceAndNameValid ==
    \A i \in DOMAIN products_db :
        /\ products_db[i].price # None /\ products_db[i].price[1] > 0
        /\ products_db[i].name # None /\ products_db[i].name[1] # ""

NotFoundBody(product_id) ==
    [error |-> NotFoundDetail(product_id), status_code |-> 404]

\* C3 as stated: get, update and delete of an id that is not in the store
\* always respond 404 with the body {error, status_code: 404}.
C3_AbsentIdAlways404 ==
    [][(/\ clock' = clock + 1
        /\ last'.op \in {"get", "update", "delete"}
        /\ last'.id \notin DOMAIN products_db)
       => (last'.status = 404 /\ last'.body = NotFoundBody(last'.id))]_vars

\* C3 as amended: get and delete of an id that is not in the store, and
\* update of such an id with a body that passes ProductUpdate validation,
\* respond 404 with the body {error, status_code: 404}; a valid create
\* responds 201 and the delete of a stored id 204.
C3_AbsentIdIs404 ==
    [][/\ (/\ clock' = clock + 1
           /\ last'.op \in {"get", "update", "delete"}
           /\ last'.id \notin DOMAIN products_db
           /\ (last'.op = "update" => ValidProductUpdate(last'.req)))
          => (last'.status = 404 /\ last'.body = NotFoundBody(last'.id))
       /\ (Handled("create") /\ ValidProductCreate(last'.req))
          => last'.status = 201
       /\ (Handled("delete") /\ last'.id \in DOMAIN products_db)
          => (last'.status = 204 /\ last'.id \notin DOMAIN products_db')
      ]_vars

\* a product was created, then deleted, and the get of its id answered 404
C3_Witness ==
    /\ last.op = "get" /\ last.status = 404
    /\ last.id \in Range(issued) /\ last.id > SeedMax
    /\ last.id \notin DOMAIN products_db

\* C4: an update of a stored id with the supplied fields F sets exactly the
\* fields in F and leaves every other field and every other record
\* unchanged; with F empty the record is unchanged and the response is 200.
C4_UpdateFrame ==
    [][(/\ Handled("update")
        /\ last'.id \in DOMAIN products_db
        /\ ValidProductUpdate(last'.req))
       => LET id == last'.id
              F == DOMAIN last'.req
          IN  /\ DOMAIN products_db' = DOMAIN products_db
              /\ \A k \in DOMAIN products_db \ {id} :
                     products_db'[k] = products_db[k]
              /\ \A f \in DOMAIN products_db[id] :
                     products_db'[id][f] =
                        IF f \in F THEN last'.req[f] ELSE products_db[id][f]
              /\ next_id' = next_id /\ db_keys' = db_keys
              /\ F = {} => (last'.status = 200 /\ products_db' = products_db)
      ]_vars

\* C5 as stated: create assigns (maximum id currently in the store) + 1, or
\* 1 if the store is empty.
C5_IdIsStoreMaxPlusOne ==
    [][(Handled("create") /\ last'.status = 201)
       => last'.id = IF DOMAIN products_db = {} THEN 1
                     ELSE Max(DOMAIN products_db) + 1]_vars

\* C5 as amended: create assigns the value of the id counter, which is one
\* more than the highest id ever assigned (seed ids and ids of deleted
\* products included), whatever the store holds now.
C5_IdIsCounter ==
    [][(Handled("create") /\ last'.status = 201)
       => (/\ last'.id = Max(Range(issued)) + 1
           /\ last'.id \in DOMAIN products_db'
           /\ products_db'[last'.id].id = last'.id)]_vars

\* every product was deleted, then a create succeeded: its id is the
\* counter's, not 1
C5_Witness ==
    /\ last.op = "create" /\ last.status = 201
    /\ DOMAIN products_db = {last.id}
    /\ last.id = SeedMax + 1

\* C6: a request that ends with an error status leaves the store and the
\* id counter as they were.
C6_ErrorLeavesStore ==
    [][(clock' = clock + 1 /\ last'.status >= 400)
       => UNCHANGED <<products_db, db_keys, next_id>>]_vars

-----------------------------------------------------------------------------
(* Properties of listing *)

\* every stored record satisfies the Product model
StoreValid == \A i \in DOMAIN products_db : ValidProduct(products_db[i])

\* p satisfies every predicate the query supplies
Satisfies(q, p) ==
    /\ q.in_stock # None => p.in_stock = q.in_stock
    /\ q.min_price # None => (p.price # None /\ p.price[1] >= q.min_price[1])
    /\ q.max_price # None => (p.price # None /\ p.price[1] <= q.max_price[1])

\* the stored products that satisfy the query, in store order
Matching(q) == SelectSeq(DictValues(Store), LAMBDA p : Satisfies(q, p))

\* the least k with k * d >= n
Ceil(n, d) == CHOOSE k \in 0 .. n : k * d >= n /\ \A j \in 0 .. (k - 1) : j * d < n

PaginationHolds ==
    (last.op = "list" /\ ValidListQuery(last.req)) =>
        LET q == last.req
            N == Len(Matching(q))
            lo == (q.page - 1) * q.page_size
            hi == Min2(q.page * q.page_size, N)
        IN  /\ last.status = 200
            /\ last.body.total_items = N
            /\ last.body.total_pages = Ceil(N, q.page_size)
            /\ Len(last.body.items) = IF hi > lo THEN hi - lo ELSE 0
            /\ \A i \in DOMAIN last.body.items :
                   last.body.items[i] = Matching(q)[lo + i]
            /\ q.page > last.body.total_pages => last.body.items = <<>>

FilteringHolds ==
    (last.op = "list" /\ ValidListQuery(last.req)) =>
        LET q == last.req
            sat == {i \in DOMAIN products_db : Satisfies(q, products_db[i])}
            items == IF last.status = 200 THEN last.body.items ELSE <<>>
        IN  /\ last.status = 200
            /\ last.body.total_items = Cardinality(sat)
            /\ \A i \in DOMAIN items :
                   items[i].id \in sat /\ items[i] = products_db[items[i].id]
            /\ (q.page = 1 /\ Cardinality(sat) <= q.page_size)
                   => {items[i].id : i \in DOMAIN items} = sat

\* C7: for a list request with page >= 1 and 1 <= page_size <= 100 over a
\* filtered list of N items, total_items is N, total_pages is
\* ceil(N / page_size), the items are the filtered list's elements from
\* (page-1)*page_size up to min(page*page_size, N), in store order, and a
\* page beyond total_pages answers 200 with no items.
C7_Pagination == PaginationHolds

\* C7 holds in every state whose records all satisfy the Product model
C7_PaginationOnValidStore == StoreValid => PaginationHolds

\* C8: the items counted and returned by list are exactly the stored
\* products that satisfy every supplied predicate; an omitted filter
\* excludes nothing.
C8_Filtering == FilteringHolds

\* C8 holds in every state whose records all satisfy the Product model
C8_FilteringOnValidStore == StoreValid => FilteringHolds

-----------------------------------------------------------------------------
(* The request logger (logging_middleware.py).  A header name is a sequence *)
(* of characters, so that str.lower() is computed and not assumed.           *)

UpperLetters ==
    <<"A", "B", "C", "D", "E", "F", "G", "H", "I", "J", "K", "L", "M", "N", "O", "P", "Q", "R", "S", "T", "U", "V", "W", "X", "Y", "Z">>
LowerLetters ==
    <<"a", "b", "c", "d", "e", "f", "g", "h", "i", "j", "k", "l", "m", "n", "o", "p", "q", "r", "s", "t", "u", "v", "w", "x", "y", "z">>

\* c.lower() for one character
LowerChar(c) ==
    IF \E i \in DOMAIN UpperLetters : UpperLetters[i] = c
    THEN LowerLetters[CHOOSE i \in DOMAIN UpperLetters : UpperLetters[i] = c]
    ELSE c

\* key.lower()
lower(key) == [i \in DOMAIN key |-> LowerChar(key[i])]

SENSITIVE_HEADERS ==
    {<<"a", "u", "t", "h", "o", "r", "i", "z", "a", "t", "i", "o", "n">>,
     <<"c", "o", "o", "k", "i", "e">>,
     <<"x", "-", "a", "p", "i", "-", "k", "e", "y">>}

REDACTED == "[REDACTED]"

\* a redaction that compares the key as sent, without lower()
redact_sensitive_headers_exact(hs) ==
    [key \in DOMAIN hs |->
        IF key \in SENSITIVE_HEADERS THEN REDACTED ELSE hs[key]]

redact_sensitive_headers(hs) ==
    [key \in DOMAIN hs |->
        IF lower(key) \in SENSITIVE_HEADERS THEN REDACTED ELSE hs[key]]

\* header names and values of the logged requests
HeaderKeys ==
    {<<"a", "u", "t", "h", "o", "r", "i", "z", "a", "t", "i", "o", "n">>,
     <<"A", "u", "t", "h", "o", "r", "i", "z", "a", "t", "i", "o", "n">>,
     <<"A", "U", "T", "H", "O", "R", "I", "Z", "A", "T", "I", "O", "N">>,
     <<"c", "o", "o", "k", "i", "e">>,
     <<"C", "o", "o", "k", "i", "e">>,
     <<"x", "-", "a", "p", "i", "-", "k", "e", "y">>,
     <<"X", "-", "A", "P", "I", "-", "K", "e", "y">>,
     <<"X", "-", "A", "p", "i", "-", "K", "e", "y">>,
     <<"a", "c", "c", "e", "p", "t">>,
     <<"c", "o", "o", "k", "i", "e", "s">>,
     <<"x", "-", "a", "p", "i", "-", "k", "e", "y", "-", "i", "d">>}
HeaderValues == {"Bearer xyz", "text/html", REDACTED}
Methods == {"GET", "PUT"}
Statuses == {200, 404}

LogInit ==
    /\ StoreInit
    /\ clock = 1 /\ last = NoRequest /\ issued = SeedStore.keys
    /\ ConcIdle
    /\ \E K \in SUBSET HeaderKeys :
          /\ Cardinality(K) <= MaxHeaders
          /\ headers \in [K -> HeaderValues]
    /\ log_entry = None

\* LoggingMiddleware.dispatch: the response of the rest of the chain is
\* returned as it is; the log record carries the redacted headers.  The
\* timestamp, client host and elapsed time of the record are left out.
dispatch(method, status_code) ==
    /\ log_entry = None
    /\ log_entry' = Some([request |-> [method |-> method,
                                       headers |-> redact_sensitive_headers(headers)],
                          response |-> [status_code |-> status_code]])
    /\ UNCHANGED <<storeVars, seqVars, concVars, headers>>

NextLog == \E m \in Methods, st \in Statuses : dispatch(m, st)

SpecLog == LogInit /\ [][NextLog]_vars

\* two characters are the same letter, ignoring case
SameLetter(c, d) ==
    \/ c = d
    \/ \E i \in DOMAIN UpperLetters :
          {c, d} = {UpperLetters[i], LowerLetters[i]}

EqualsIgnoringCase(a, b) ==
    Len(a) = Len(b) /\ \A i \in DOMAIN a : SameLetter(a[i], b[i])

IsSensitive(key) == \E sh \in SENSITIVE_HEADERS : EqualsIgnoringCase(key, sh)

\* C9: the logged headers have the keys of the request headers; the value
\* of every header named authorization, cookie or x-api-key, ignoring
\* letter case, is the marker "[REDACTED]" (so an original value other than
\* the marker never appears), and every other value is the original.
C9_Redaction ==
    log_entry # None =>
        LET logged == log_entry[1].request.headers
        IN  /\ DOMAIN logged = DOMAIN headers
            /\ \A key \in DOMAIN headers :
                  IF IsSensitive(key)
                  THEN /\ logged[key] = REDACTED
                       /\ headers[key] # REDACTED => logged[key] # headers[key]
                  ELSE logged[key] = headers[key]

\* a record was emitted for a request carrying "Authorization: Bearer xyz"
\* next to a header that is not sensitive
C9_Witness ==
    /\ log_entry # None
    /\ <<"A", "u", "t", "h", "o", "r", "i", "z", "a", "t", "i", "o", "n">> \in DOMAIN headers
    /\ headers[<<"A", "u", "t", "h", "o", "r", "i", "z", "a", "t", "i", "o", "n">>] = "Bearer xyz"
    /\ log_entry[1].request.headers[<<"A", "u", "t", "h", "o", "r", "i", "z", "a", "t", "i", "o", "n">>] = REDACTED
    /\ \E key \in DOMAIN headers : ~IsSensitive(key)

-----------------------------------------------------------------------------
(* Concurrently dispatched requests on one worker.  A request's task       *)
(* suspends where the code awaits: the middleware awaits call_next before  *)
(* the handler runs; after the handler returned the middleware resumes and *)
(* emits its log record.  No handler of main.py awaits between its first   *)
(* read and its last write of products_db or next_id, so the handler body  *)
(* is one step.                                                            *)

Tasks == 1 .. MaxTasks

CreateReq(product) == [op |-> "create", id |-> 0, arg |-> product]
GetReq(i) == [op |-> "get", id |-> i, arg |-> None]
UpdateReq(i, u) == [op |-> "update", id |-> i, arg |-> u]
DeleteReq(i) == [op |-> "delete", id |-> i, arg |-> None]
UploadReq(i, ct, ok) ==
    [op |-> "upload", id |-> i, arg |-> [content_type |-> ct, decodable |-> ok]]

\* the route's handler, run on store S at time now
Apply(S, req, now) ==
    CASE req.op = "create" -> create_product(S, req.arg, now)
      [] req.op = "get"    -> get_product(S, req.id)
      [] req.op = "update" -> update_product(S, req.id, req.arg)
      [] req.op = "delete" -> delete_product(S, req.id)
      [] req.op = "upload" -> upload_product_image(S, req.id,
                                  req.arg.content_type, req.arg.decodable)

ConcInit ==
    /\ StoreInit
    /\ clock = 1 /\ last = NoRequest /\ issued = SeedStore.keys
    /\ pc = [t \in Tasks |-> "idle"]
    /\ task = [t \in Tasks |-> None]
    /\ resps = [t \in Tasks |-> None]
    /\ handled = <<>>
    /\ LogIdle

\* LoggingMiddleware.dispatch up to "await call_next(request)"
Receive(t, req) ==
    /\ pc[t] = "idle"
    /\ pc' = [pc EXCEPT ![t] = "awaiting"]
    /\ task' = [task EXCEPT ![t] = req]
    /\ UNCHANGED <<storeVars, seqVars, resps, handled, logVars>>

\* the handler body, from its first line to its return
RunHandler(t) ==
    /\ pc[t] = "awaiting"
    /\ LET r == Apply(Store, task[t], clock) IN
         /\ products_db' = r.S.db
         /\ db_keys' = r.S.keys
         /\ next_id' = r.S.next_id
         /\ resps' = [resps EXCEPT ![t] = Some(r.resp)]
         /\ handled' = Append(handled, [req |-> task[t], now |-> clock,
                                        resp |-> r.resp])
    /\ clock' = clock + 1
    /\ pc' = [pc EXCEPT ![t] = "responded"]
    /\ UNCHANGED <<last, issued, task, logVars>>

\* LoggingMiddleware.dispatch after call_next returned: log, return response
EmitLog(t) ==
    /\ pc[t] = "responded"
    /\ pc' = [pc EXCEPT ![t] = "done"]
    /\ UNCHANGED <<storeVars, seqVars, task, resps, handled, logVars>>

ConcIds == {SeedMax, SeedMax + 1}

NextConc ==
    \/ \E t \in Tasks : Receive(t, CreateReq(Body(Some("Widget"), Some(999))))
    \/ \E t \in Tasks, i \in ConcIds, p \in {Some(2500), None} :
          Receive(t, UpdateReq(i, UpdateBody({"price"}, None, p, None)))
    \/ \E t \in Tasks, i \in ConcIds :
          Receive(t, UpdateReq(i, UpdateBody({"name", "in_stock"},
                                             Some("Gadget"), None, Some(FALSE))))
    \/ \E t \in Tasks, i \in ConcIds : Receive(t, DeleteReq(i))
    \/ \E t \in Tasks, i \in ConcIds, ok \in BOOLEAN :
          Receive(t, UploadReq(i, "image/png", ok))
    \/ \E t \in Tasks : RunHandler(t)
    \/ \E t \in Tasks : EmitLog(t)

SpecConc == ConcInit /\ [][NextConc]_vars

-----------------------------------------------------------------------------
(* Properties of concurrent requests *)

\* the store and the responses after handling the requests of h one after
\* another, each to completion, starting from the seeded store
RECURSIVE Replay(_)
Replay(h) ==
    IF h = <<>> THEN [S |-> SeedStore, resps |-> <<>>]
    ELSE LET before == Replay(SubSeq(h, 1, Len(h) - 1))
             e == h[Len(h)]
             r == Apply(before.S, e.req, e.now)
         IN  [S |-> r.S, resps |-> Append(before.resps, r.resp)]

\* entry e reached the statement that writes field f of product id
MayWrite(e, id, f) ==
    /\ e.req.id = id
    /\ \/ e.req.op = "update" /\ f \in DOMAIN e.req.arg
                              /\ e.resp.status \in {200, 500}
       \/ e.req.op = "upload" /\ f = "image_url" /\ e.resp.status \in {200, 500}

\* the value a successful entry wrote to field f of product id
Wrote(e, id, f) ==
    IF e.req.op = "update" THEN e.req.arg[f]
    ELSE Some([dir |-> UPLOADS_DIR, product_id |-> id,
               ext |-> get_image_extension(e.req.arg.content_type)[1]])

\* C10: whatever the interleaving, the store and the id counter are those
\* of handling the same requests one after another in some order; no two
\* creates receive the same id; what a successful update or upload wrote
\* stays until a later request writes the same field or deletes the
\* product; once a delete has succeeded no later request finds the product.
C10_Serializable ==
    /\ LET seq == Replay(handled) IN
         /\ Store = seq.S
         /\ \A i \in DOMAIN handled : handled[i].resp = seq.resps[i]
    /\ \A i, j \in DOMAIN handled :
          (/\ i # j
           /\ handled[i].req.op = "create" /\ handled[i].resp.status = 201
           /\ handled[j].req.op = "create" /\ handled[j].resp.status = 201)
          => handled[i].resp.body.id # handled[j].resp.body.id
    /\ \A i \in DOMAIN handled :
          LET e == handled[i] IN
          (e.req.op \in {"update", "upload"} /\ e.resp.status = 200) =>
             \A f \in (IF e.req.op = "update" THEN DOMAIN e.req.arg
                       ELSE {"image_url"}) :
                (\A j \in DOMAIN handled : j > i =>
                     /\ ~MayWrite(handled[j], e.req.id, f)
                     /\ ~(handled[j].req.op = "delete"
                          /\ handled[j].req.id = e.req.id
                          /\ handled[j].resp.status = 204))
                => /\ e.req.id \in DOMAIN products_db
                   /\ products_db[e.req.id][f] = Wrote(e, e.req.id, f)
    /\ \A i, j \in DOMAIN handled :
          (/\ i < j
           /\ handled[i].req.op = "delete" /\ handled[i].resp.status = 204
           /\ handled[j].req.op # "create"
           /\ handled[j].req.id = handled[i].req.id)
          => (handled[j].resp.status = 404
              /\ handled[i].req.id \notin DOMAIN products_db)

\* two requests were in flight at once, and the handler of the second ran
\* while the first was suspended in the middleware: two creates both
\* succeeded, or a delete ran before an update of the same product
C10_Witness ==
    /\ \A t \in Tasks : pc[t] = "responded"
    /\ \E i, j \in DOMAIN handled :
          /\ i < j
          /\ \/ /\ handled[i].req.op = "create" /\ handled[i].resp.status = 201
                /\ handled[j].req.op = "create" /\ handled[j].resp.status = 201
                /\ handled[j].resp.body.id \in DOMAIN products_db
             \/ /\ handled[i].req.op = "delete" /\ handled[i].resp.status = 204
                /\ handled[j].req.op = "update"
                /\ handled[j].req.id = handled[i].req.id

=============================================================================
